---- MODULE Spec2Model ----
(***************************************************************************)
(* Liora backend: the analysis lifecycle (handlers/analysis.go) with the   *)
(* company and upload handlers it depends on.                              *)
(*                                                                         *)
(* The three stores are package-level Go maps with no lock.  Every HTTP    *)
(* handler runs in its own goroutine and every analysis has a detached     *)
(* goroutine (simulateAnalysisProcessing).  A store `analyses[id] = v` is  *)
(* not atomic: the goroutine is first inside runtime.mapassign (the map    *)
(* header is flagged as being written) and then copies the 208-byte        *)
(* Analysis value into the slot, field after field.  An access of the map  *)
(* that overlaps mapassign is a data race the runtime may detect ("fatal   *)
(* error: concurrent map writes" / "concurrent map read and map write",    *)
(* which ends the process) or may miss; a read that overlaps the value     *)
(* copy is never detected and sees the fields copied so far.               *)
(*                                                                         *)
(* Identifiers are small integers standing for uuid strings; 0 stands for  *)
(* the empty string.  Metric values are fixed point, in 1/MetricScale;      *)
(* scores in 1/ScoreScale.                                                 *)
(*                                                                         *)
(* Timestamps are seconds on a clock of the analysis they belong to: the   *)
(* StartAnalysis handler reads 1 and every time.Sleep(d) of its scheduler  *)
(* moves the clock on by d.  The offset between the clocks of different    *)
(* analyses and the lateness of a wake-up are left out; nothing below      *)
(* compares timestamps of different records.                               *)
(***************************************************************************)
EXTENDS Integers, Sequences, FiniteSets, TLC

VARIABLES
    companies,      \* handlers.companies:      company id -> Company
    uploadedFiles,  \* handlers.uploadedFiles:  file id -> UploadedFile
    issuedFiles,    \* file ids uuid.New() has handed out so far
    analyses,       \* handlers.analyses:       analysis id -> Analysis
    task,           \* per analysis id: the goroutine working on it
    crashed,        \* the runtime ended the process (fatal error)
    resp            \* the HTTP response written by the last step, if any

vars == <<companies, uploadedFiles, issuedFiles, analyses, task, crashed, resp>>

-----------------------------------------------------------------------------
(* Bounds of the model *)

MaxAnalyses == 2
MaxCompanies == 1
MaxFiles == 1
MaxFileList == 2
MaxRand == 0

AnalysisIds == 1..MaxAnalyses
CompanyIds == 1..MaxCompanies
FileIds == 1..MaxFiles

-----------------------------------------------------------------------------
(* models/analysis.go *)

StatusPending == "pending"
StatusProcessing == "processing"
StatusCompleted == "completed"
StatusFailed == "failed"

\* The zero value of models.Analysis (what a map read of a missing key gives).
ZeroAnalysis ==
    [ID |-> 0, CompanyID |-> 0, Status |-> "", Progress |-> 0,
     OverallScore |-> 0, Recommendation |-> "", KeyMetrics |-> <<>>,
     Insights |-> <<>>, Risks |-> <<>>,
     CreatedAt |-> 0, UpdatedAt |-> 0, CompletedAt |-> <<>>]

\* CompletedAt is a *time.Time: <<>> is nil, <<t>> points to t.

-----------------------------------------------------------------------------
(* utils/response.go *)

StatusOK == 200
StatusBadRequest == 400
StatusNotFound == 404
StatusInternalServerError == 500

NoResponse == [op |-> "", code |-> 0]

\* The process is alive and no handler is between writing its response and
\* returning.
Running == ~crashed /\ resp = NoResponse

SuccessResponse(op, data) ==
    [op |-> op, code |-> StatusOK, success |-> TRUE, data |-> data, message |-> ""]

SuccessResponseWithMessage(op, data, message) ==
    [op |-> op, code |-> StatusOK, success |-> TRUE, data |-> data, message |-> message]

ErrorResponse(op, statusCode, error) ==
    [op |-> op, code |-> statusCode, success |-> FALSE, error |-> error]

ValidationErrorResponse(op, error) == ErrorResponse(op, StatusBadRequest, error)

NotFoundResponse(op, resource) == ErrorResponse(op, StatusNotFound, <<resource, "not found">>)

InternalServerErrorResponse(op, error) == ErrorResponse(op, StatusInternalServerError, error)

-----------------------------------------------------------------------------
(* handlers/analysis.go: the mock data generators *)

\* Fixed point: a metric value v is stored as v * MetricScale, a score s as
\* s * ScoreScale; rand.Float64() returns k / RandDen for k in 0..RandDen-1.
\* With these scales every sum and the division by four are exact, as they
\* are in float64 for the same operands.
MetricScale == 8
ScoreScale == 32
RandDen == 4

Min(a, b) == IF a < b THEN a ELSE b

\* The values rand.Float64() may return (numerators over RandDen), and the
\* values rand.Intn(n) may return, the random source limited to 0..r.
Float64s(r) == 0..Min(RandDen - 1, r)
Intn(n, r) == 0..Min(n - 1, r)

\* x/10 as a fixed-point number of the given scale (x in tenths)
Tenths(x, scale) == (x * scale) \div 10

\* The tiers with the boundary values in the lower tier.
MetricColor_BoundariesBelow(value) ==
    IF value > Tenths(80, MetricScale) THEN "text-green-600"
    ELSE IF value > Tenths(60, MetricScale) THEN "text-yellow-600"
    ELSE "text-red-600"

MetricColor(value) ==
    IF value >= Tenths(80, MetricScale) THEN "text-green-600"
    ELSE IF value >= Tenths(60, MetricScale) THEN "text-yellow-600"
    ELSE "text-red-600"

MetricTable ==
    << [Label |-> "Market Potential",  Base |-> 70, Span |-> 30],
       [Label |-> "Team Strength",     Base |-> 65, Span |-> 35],
       [Label |-> "Product Viability", Base |-> 60, Span |-> 40],
       [Label |-> "Financial Health",  Base |-> 55, Span |-> 45] >>

\* f[i] is the numerator of the i-th rand.Float64() call
generateMockMetrics(f) ==
    [i \in 1..Len(MetricTable) |->
        LET value == Tenths(MetricTable[i].Base, MetricScale)
                     + (f[i] * Tenths(MetricTable[i].Span, MetricScale)) \div RandDen
        IN  [Label |-> MetricTable[i].Label, Value |-> value, Color |-> MetricColor(value)]]

InsightSets ==
    << << "Strong founding team with relevant industry experience",
          "Large addressable market with growing demand",
          "Competitive product differentiation identified",
          "Revenue growth trajectory shows positive momentum" >>,
       << "Experienced leadership team with proven track record",
          "Innovative technology with patent protection",
          "Strong customer acquisition metrics",
          "Clear path to market expansion" >>,
       << "Well-defined value proposition resonates with target market",
          "Solid financial projections with conservative assumptions",
          "Strategic partnerships provide competitive advantage",
          "Scalable business model with recurring revenue potential" >> >>

RiskSets ==
    << << "High competition in target market segment",
          "Dependency on key partnerships for distribution",
          "Limited runway based on current burn rate" >>,
       << "Regulatory challenges in target markets",
          "Customer concentration risk with top clients",
          "Technology scalability concerns at growth stage" >>,
       << "Market timing risks for product launch",
          "Key person dependency on founders",
          "Potential intellectual property disputes" >> >>

\* n is the value of rand.Intn(len(insights))
generateMockInsights(n) == InsightSets[n + 1]

generateMockRisks(n) == RiskSets[n + 1]

generateRecommendation(score) ==
    IF score >= Tenths(85, ScoreScale) THEN "Exceptional Investment Opportunity"
    ELSE IF score >= Tenths(75, ScoreScale) THEN "Strong Investment Opportunity"
    ELSE IF score >= Tenths(65, ScoreScale) THEN "Moderate Investment Potential"
    ELSE IF score >= Tenths(55, ScoreScale) THEN "Proceed with Caution"
    ELSE "High Risk Investment"

RECURSIVE SumValues(_, _)
SumValues(metrics, n) ==
    IF n = 0 THEN 0 ELSE SumValues(metrics, n - 1) + metrics[n].Value

\* overallScore / float64(len(metrics)), in 1/ScoreScale
MeanScore(metrics) ==
    (SumValues(metrics, Len(metrics)) * (ScoreScale \div MetricScale)) \div Len(metrics)

\* One outcome of the random source for one completion: four Float64 calls,
\* then Intn for the insights, then Intn for the risks.
Draws(r) ==
    [f : [1..Len(MetricTable) -> Float64s(r)],
     i : Intn(Len(InsightSets), r),
     k : Intn(Len(RiskSets), r)]

-----------------------------------------------------------------------------
(* handlers/analysis.go: simulateAnalysisProcessing *)

\* The table with the second and third checkpoint exchanged.
stages_CheckpointsExchanged ==
    << [status |-> StatusProcessing, progress |-> 25,  duration |-> 2],
       [status |-> StatusProcessing, progress |-> 75,  duration |-> 3],
       [status |-> StatusProcessing, progress |-> 50,  duration |-> 2],
       [status |-> StatusCompleted,  progress |-> 100, duration |-> 1] >>

\* The table with the second stage already completing.
stages_CompletesEarly ==
    << [status |-> StatusProcessing, progress |-> 25,  duration |-> 2],
       [status |-> StatusCompleted,  progress |-> 50,  duration |-> 3],
       [status |-> StatusProcessing, progress |-> 75,  duration |-> 2],
       [status |-> StatusCompleted,  progress |-> 100, duration |-> 1] >>

\* The table with a last stage that fails.
stages_EndsFailed ==
    << [status |-> StatusProcessing, progress |-> 25,  duration |-> 2],
       [status |-> StatusProcessing, progress |-> 50,  duration |-> 3],
       [status |-> StatusProcessing, progress |-> 75,  duration |-> 2],
       [status |-> StatusFailed,     progress |-> 100, duration |-> 1] >>

stages ==
    << [status |-> StatusProcessing, progress |-> 25,  duration |-> 2],
       [status |-> StatusProcessing, progress |-> 50,  duration |-> 3],
       [status |-> StatusProcessing, progress |-> 75,  duration |-> 2],
       [status |-> StatusCompleted,  progress |-> 100, duration |-> 1] >>

\* The loop body with the results generated at every stage.
StageMutation_ScoresEveryStage(analysis, stage, t, d) ==
    LET a1 == [analysis EXCEPT !.Status = stage.status,
                               !.Progress = stage.progress,
                               !.UpdatedAt = t]
        metrics == generateMockMetrics(d.f)
        overallScore == MeanScore(metrics)
        a2 == [a1 EXCEPT !.OverallScore = overallScore,
                         !.Recommendation = generateRecommendation(overallScore),
                         !.KeyMetrics = metrics,
                         !.Insights = generateMockInsights(d.i),
                         !.Risks = generateMockRisks(d.k)]
    IN  IF stage.status = StatusCompleted
        THEN [a2 EXCEPT !.CompletedAt = <<t>>]
        ELSE a2

\* The loop body stamping the creation time as well.
StageMutation_RestampsCreatedAt(analysis, stage, t, d) ==
    LET a1 == [analysis EXCEPT !.Status = stage.status,
                               !.Progress = stage.progress,
                               !.CreatedAt = t,
                               !.UpdatedAt = t]
        metrics == generateMockMetrics(d.f)
        overallScore == MeanScore(metrics)
    IN  IF stage.status = StatusCompleted
        THEN [a1 EXCEPT !.OverallScore = overallScore,
                        !.Recommendation = generateRecommendation(overallScore),
                        !.KeyMetrics = metrics,
                        !.Insights = generateMockInsights(d.i),
                        !.Risks = generateMockRisks(d.k),
                        !.CompletedAt = <<t>>]
        ELSE a1

\* The loop body without the refresh of UpdatedAt.
StageMutation_KeepsUpdatedAt(analysis, stage, t, d) ==
    LET a1 == [analysis EXCEPT !.Status = stage.status,
                               !.Progress = stage.progress]
        metrics == generateMockMetrics(d.f)
        overallScore == MeanScore(metrics)
    IN  IF stage.status = StatusCompleted
        THEN [a1 EXCEPT !.OverallScore = overallScore,
                        !.Recommendation = generateRecommendation(overallScore),
                        !.KeyMetrics = metrics,
                        !.Insights = generateMockInsights(d.i),
                        !.Risks = generateMockRisks(d.k),
                        !.CompletedAt = <<t>>]
        ELSE a1

\* The loop body with CompletedAt taken from the time of the previous write.
StageMutation_StaleCompletedAt(analysis, stage, t, d) ==
    LET a1 == [analysis EXCEPT !.Status = stage.status,
                               !.Progress = stage.progress,
                               !.UpdatedAt = t]
        metrics == generateMockMetrics(d.f)
        overallScore == MeanScore(metrics)
    IN  IF stage.status = StatusCompleted
        THEN [a1 EXCEPT !.OverallScore = overallScore,
                        !.Recommendation = generateRecommendation(overallScore),
                        !.KeyMetrics = metrics,
                        !.Insights = generateMockInsights(d.i),
                        !.Risks = generateMockRisks(d.k),
                        !.CompletedAt = <<analysis.UpdatedAt>>]
        ELSE a1

\* The body of one loop iteration between the map read and the map write:
\* `analysis` as read from the map, the stage, the time and the random draw.
StageMutation(analysis, stage, t, d) ==
    LET a1 == [analysis EXCEPT !.Status = stage.status,
                               !.Progress = stage.progress,
                               !.UpdatedAt = t]
        metrics == generateMockMetrics(d.f)
        overallScore == MeanScore(metrics)
    IN  IF stage.status = StatusCompleted
        THEN [a1 EXCEPT !.OverallScore = overallScore,
                        !.Recommendation = generateRecommendation(overallScore),
                        !.KeyMetrics = metrics,
                        !.Insights = generateMockInsights(d.i),
                        !.Risks = generateMockRisks(d.k),
                        !.CompletedAt = <<t>>]
        ELSE a1

\* A map read that finds no entry.
MapRead_FindsNothing(id) == ZeroAnalysis

\* analyses[id] as a Go map read gives it: the zero value for a missing key
MapRead(id) == IF id \in DOMAIN analyses THEN analyses[id] ELSE ZeroAnalysis

\* The pieces in which the value copy of `analyses[id] = analysis` becomes
\* visible to other goroutines.  Their order is not fixed.
CopyUnits ==
    { {"ID"}, {"CompanyID"}, {"Status"}, {"Progress"},
      {"OverallScore", "Recommendation", "KeyMetrics", "Insights", "Risks"},
      {"CreatedAt"}, {"UpdatedAt"}, {"CompletedAt"} }

Differs(old, new, u) == \E fld \in u : old[fld] # new[fld]

CopyUnit(old, new, u) ==
    [fld \in DOMAIN old |-> IF fld \in u THEN new[fld] ELSE old[fld]]

\* Some goroutine other than `self` is inside runtime.mapassign on `analyses`.
InMapassign(self) == \E o \in DOMAIN task : o # self /\ task[o].pc = "assign"

\* runtime.fatal: the process is gone, nothing runs any more.
Fatal ==
    /\ crashed' = TRUE
    /\ resp' = NoResponse
    /\ UNCHANGED <<companies, uploadedFiles, issuedFiles, analyses, task>>

-----------------------------------------------------------------------------
(* handlers/company.go.  Of models.Company the model keeps ID and Name; the
   other request fields are handled as Name is, the timestamps are dropped. *)

CompanyNames == {"Acme", "Beta"}

CreateCompany(name) ==
    /\ Running
    /\ IF name = ""
       THEN /\ resp' = ValidationErrorResponse("CreateCompany", "Name is required")
            /\ UNCHANGED companies
       ELSE \E id \in CompanyIds \ DOMAIN companies :
            LET company == [ID |-> id, Name |-> name]
            IN  /\ companies' = companies @@ (id :> company)
                /\ resp' = SuccessResponseWithMessage("CreateCompany", company,
                                                      "Company created successfully")
    /\ UNCHANGED <<uploadedFiles, issuedFiles, analyses, task, crashed>>

GetCompany(companyID) ==
    /\ Running
    /\ resp' = IF companyID \notin DOMAIN companies
               THEN NotFoundResponse("GetCompany", "Company")
               ELSE SuccessResponse("GetCompany", companies[companyID])
    /\ UNCHANGED <<companies, uploadedFiles, issuedFiles, analyses, task, crashed>>

UpdateCompany(companyID, bound, name) ==
    /\ Running
    /\ IF companyID \notin DOMAIN companies
       THEN /\ resp' = NotFoundResponse("UpdateCompany", "Company")
            /\ UNCHANGED companies
       ELSE IF ~bound
       THEN /\ resp' = ValidationErrorResponse("UpdateCompany", "invalid JSON")
            /\ UNCHANGED companies
       ELSE LET company == [companies[companyID] EXCEPT
                                !.Name = IF name # "" THEN name ELSE @]
            IN  /\ companies' = [companies EXCEPT ![companyID] = company]
                /\ resp' = SuccessResponseWithMessage("UpdateCompany", company,
                                                      "Company updated successfully")
    /\ UNCHANGED <<uploadedFiles, issuedFiles, analyses, task, crashed>>

-----------------------------------------------------------------------------
(* handlers/upload.go.  Of models.UploadedFile the model keeps ID, Size and
   Status. *)

allowedFileTypes == {".pdf", ".doc", ".docx", ".ppt", ".pptx", ".xls", ".xlsx", ".txt"}

MaxUploadBytes == 10485760

\* A submitted file: its extension (lower-cased), its size, and what saving
\* it to disk does: "ok", or the step that fails ("open", "create", "copy").
\* One file that passes every check and one for each way of being rejected.
SubmittedFiles ==
    { [Ext |-> ".pdf", Size |-> MaxUploadBytes,     Save |-> "ok"],
      [Ext |-> ".exe", Size |-> MaxUploadBytes,     Save |-> "ok"],
      [Ext |-> ".pdf", Size |-> MaxUploadBytes + 1, Save |-> "ok"],
      [Ext |-> ".pdf", Size |-> MaxUploadBytes,     Save |-> "copy"] }

FileRejected(file) ==
    \/ file.Ext \notin allowedFileTypes
    \/ file.Size > MaxUploadBytes
    \/ file.Save # "ok"

FileError(file) ==
    IF file.Ext \notin allowedFileTypes
    THEN ValidationErrorResponse("UploadFiles", "File type not allowed")
    ELSE IF file.Size > MaxUploadBytes
    THEN ValidationErrorResponse("UploadFiles", "File exceeds size limit")
    ELSE InternalServerErrorResponse("UploadFiles", "Failed to save file")

\* An upload that registers nothing unless every file passes.
RegisteredCount_AllOrNothing(files) ==
    IF \E i \in 1..Len(files) : FileRejected(files[i]) THEN 0 ELSE Len(files)

\* The number of files the loop registers: all of them, or those before the
\* first rejected one.
RegisteredCount(files) ==
    IF \E i \in 1..Len(files) : FileRejected(files[i])
    THEN (CHOOSE i \in 1..Len(files) :
              /\ FileRejected(files[i])
              /\ \A j \in 1..(i - 1) : ~FileRejected(files[j])) - 1
    ELSE Len(files)

\* mkdir: os.MkdirAll succeeds; form: c.MultipartForm() succeeds
UploadFiles(mkdir, form, files) ==
    /\ Running
    /\ IF ~mkdir
       THEN /\ resp' = InternalServerErrorResponse("UploadFiles",
                                                   "Failed to create upload directory")
            /\ UNCHANGED <<uploadedFiles, issuedFiles>>
       ELSE IF ~form
       THEN /\ resp' = ValidationErrorResponse("UploadFiles", "Invalid multipart form")
            /\ UNCHANGED <<uploadedFiles, issuedFiles>>
       ELSE IF Len(files) = 0
       THEN /\ resp' = ValidationErrorResponse("UploadFiles", "No files provided")
            /\ UNCHANGED <<uploadedFiles, issuedFiles>>
       ELSE LET n == RegisteredCount(files)
            IN  \E ids \in [1..n -> FileIds \ issuedFiles] :
                  /\ \A i, j \in 1..n : i # j => ids[i] # ids[j]
                  /\ LET list == [i \in 1..n |->
                                     [ID |-> ids[i], Size |-> files[i].Size,
                                      Status |-> "uploaded"]]
                     IN  /\ uploadedFiles' =
                               [fid \in DOMAIN uploadedFiles \cup {ids[i] : i \in 1..n} |->
                                   IF \E i \in 1..n : ids[i] = fid
                                   THEN list[CHOOSE i \in 1..n : ids[i] = fid]
                                   ELSE uploadedFiles[fid]]
                         /\ issuedFiles' = issuedFiles \cup {ids[i] : i \in 1..n}
                         /\ resp' = IF n < Len(files)
                                    THEN FileError(files[n + 1])
                                    ELSE SuccessResponseWithMessage("UploadFiles",
                                             [Files |-> list], "Successfully uploaded files")
    /\ UNCHANGED <<companies, analyses, task, crashed>>

GetUploadStatus(fileID) ==
    /\ Running
    /\ resp' = IF fileID \notin DOMAIN uploadedFiles
               THEN NotFoundResponse("GetUploadStatus", "File")
               ELSE SuccessResponse("GetUploadStatus", uploadedFiles[fileID])
    /\ UNCHANGED <<companies, uploadedFiles, issuedFiles, analyses, task, crashed>>

\* A deletion that cascades: the analyses are marked failed with the file.
DeleteUpload_CascadesToAnalyses(fileID, removed) ==
    /\ Running
    /\ IF fileID \notin DOMAIN uploadedFiles
       THEN /\ resp' = NotFoundResponse("DeleteUpload", "File")
            /\ UNCHANGED <<uploadedFiles, analyses>>
       ELSE IF ~removed
       THEN /\ resp' = InternalServerErrorResponse("DeleteUpload", "Failed to delete file")
            /\ UNCHANGED <<uploadedFiles, analyses>>
       ELSE /\ uploadedFiles' = [fid \in DOMAIN uploadedFiles \ {fileID} |-> uploadedFiles[fid]]
            /\ analyses' = [id \in DOMAIN analyses |->
                               [analyses[id] EXCEPT !.Status = StatusFailed]]
            /\ resp' = SuccessResponseWithMessage("DeleteUpload", <<>>,
                                                  "File deleted successfully")
    /\ UNCHANGED <<companies, issuedFiles, task, crashed>>

\* A deletion that takes the file out of the map before removing it from disk.
DeleteUpload_UnregistersFirst(fileID, removed) ==
    /\ Running
    /\ IF fileID \notin DOMAIN uploadedFiles
       THEN /\ resp' = NotFoundResponse("DeleteUpload", "File")
            /\ UNCHANGED uploadedFiles
       ELSE /\ uploadedFiles' = [fid \in DOMAIN uploadedFiles \ {fileID} |-> uploadedFiles[fid]]
            /\ resp' = IF ~removed
                       THEN InternalServerErrorResponse("DeleteUpload", "Failed to delete file")
                       ELSE SuccessResponseWithMessage("DeleteUpload", <<>>,
                                                       "File deleted successfully")
    /\ UNCHANGED <<companies, issuedFiles, analyses, task, crashed>>

\* removed: os.Remove of the physical file succeeds
DeleteUpload(fileID, removed) ==
    /\ Running
    /\ IF fileID \notin DOMAIN uploadedFiles
       THEN /\ resp' = NotFoundResponse("DeleteUpload", "File")
            /\ UNCHANGED uploadedFiles
       ELSE IF ~removed
       THEN /\ resp' = InternalServerErrorResponse("DeleteUpload", "Failed to delete file")
            /\ UNCHANGED uploadedFiles
       ELSE /\ uploadedFiles' = [fid \in DOMAIN uploadedFiles \ {fileID} |-> uploadedFiles[fid]]
            /\ resp' = SuccessResponseWithMessage("DeleteUpload", <<>>,
                                                  "File deleted successfully")
    /\ UNCHANGED <<companies, issuedFiles, analyses, task, crashed>>

-----------------------------------------------------------------------------
(* handlers/analysis.go: the request handlers *)

\* A bound StartAnalysisRequest.  CompanyID 0 is the empty string; HasFileIDs
\* is FALSE when the body has no file_ids (both fail `binding:"required"`).
StartRequests ==
    [CompanyID : 0..(MaxCompanies + 1),
     HasFileIDs : {TRUE},
     FileIDs : UNION {[1..n -> 1..(MaxFiles + 1)] : n \in 0..MaxFileList}]
    \cup [CompanyID : 1..MaxCompanies, HasFileIDs : {FALSE}, FileIDs : {<<>>}]

\* A record that is created already in its first processing stage.
NewAnalysis_StartsProcessing(id, companyID, t) ==
    [ZeroAnalysis EXCEPT !.ID = id, !.CompanyID = companyID,
                         !.Status = StatusProcessing, !.Progress = 25,
                         !.CreatedAt = t, !.UpdatedAt = t]

\* A record whose ID does not come from the generator.
NewAnalysis_FixedID(id, companyID, t) ==
    [ZeroAnalysis EXCEPT !.ID = 1, !.CompanyID = companyID,
                         !.Status = StatusPending, !.Progress = 0,
                         !.CreatedAt = t, !.UpdatedAt = t]

NewAnalysis(id, companyID, t) ==
    [ZeroAnalysis EXCEPT !.ID = id, !.CompanyID = companyID,
                         !.Status = StatusPending, !.Progress = 0,
                         !.CreatedAt = t, !.UpdatedAt = t]

FirstMissingFile(fileIDs) ==
    CHOOSE i \in 1..Len(fileIDs) :
        /\ fileIDs[i] \notin DOMAIN uploadedFiles
        /\ \A j \in 1..(i - 1) : fileIDs[j] \in DOMAIN uploadedFiles

\* The checks with the missing company reported as a validation error.
StartAnalysisError_CompanyIsValidation(req) ==
    IF req.CompanyID = 0 \/ ~req.HasFileIDs
    THEN ValidationErrorResponse("StartAnalysis", "binding failed")
    ELSE IF req.CompanyID \notin DOMAIN companies
    THEN ValidationErrorResponse("StartAnalysis", "Company not found")
    ELSE IF \E i \in 1..Len(req.FileIDs) : req.FileIDs[i] \notin DOMAIN uploadedFiles
    THEN ValidationErrorResponse("StartAnalysis",
             "File " \o ToString(req.FileIDs[FirstMissingFile(req.FileIDs)]) \o " not found")
    ELSE NoResponse

\* The checks with only the first file id looked up.
StartAnalysisError_FirstFileOnly(req) ==
    IF req.CompanyID = 0 \/ ~req.HasFileIDs
    THEN ValidationErrorResponse("StartAnalysis", "binding failed")
    ELSE IF req.CompanyID \notin DOMAIN companies
    THEN NotFoundResponse("StartAnalysis", "Company")
    ELSE IF Len(req.FileIDs) > 0 /\ req.FileIDs[1] \notin DOMAIN uploadedFiles
    THEN ValidationErrorResponse("StartAnalysis",
             "File " \o ToString(req.FileIDs[1]) \o " not found")
    ELSE NoResponse

\* What StartAnalysis answers when it does not create an analysis; NoResponse
\* when the request passes every check.
StartAnalysisError(req) ==
    IF req.CompanyID = 0 \/ ~req.HasFileIDs
    THEN ValidationErrorResponse("StartAnalysis", "binding failed")
    ELSE IF req.CompanyID \notin DOMAIN companies
    THEN NotFoundResponse("StartAnalysis", "Company")
    ELSE IF \E i \in 1..Len(req.FileIDs) : req.FileIDs[i] \notin DOMAIN uploadedFiles
    THEN ValidationErrorResponse("StartAnalysis",
             "File " \o ToString(req.FileIDs[FirstMissingFile(req.FileIDs)]) \o " not found")
    ELSE NoResponse

\* Lines 190-219: bind, validate, build the record.  The handler goroutine is
\* then about to store it (task pc "write", stage 0).
StartAnalysis(req) ==
    /\ Running
    /\ IF StartAnalysisError(req) # NoResponse
       THEN /\ resp' = StartAnalysisError(req)
            /\ UNCHANGED task
       ELSE \E id \in AnalysisIds \ DOMAIN task :
              /\ task' = task @@ (id :> [pc |-> "write", stage |-> 0,
                                         local |-> NewAnalysis(id, req.CompanyID, 1),
                                         clock |-> 1])
              /\ resp' = NoResponse
    /\ UNCHANGED <<companies, uploadedFiles, issuedFiles, analyses, crashed>>

\* `analyses[id] = analysis`, first part: the goroutine enters
\* runtime.mapassign.  Another goroutine inside it is a concurrent map write.
EnterMapassign(id) ==
    /\ Running
    /\ id \in DOMAIN task
    /\ task[id].pc = "write"
    /\ \/ /\ InMapassign(id)
          /\ Fatal
       \/ /\ task' = [task EXCEPT ![id].pc = "assign"]
          /\ resp' = NoResponse
          /\ UNCHANGED <<companies, uploadedFiles, issuedFiles, analyses, crashed>>

\* The task after its store is complete: the handler is about to `go`, the
\* scheduler sleeps for the next stage or returns.
AfterStore(t) ==
    IF t.stage = 0
    THEN [t EXCEPT !.pc = "stored"]
    ELSE IF t.stage = Len(stages)
    THEN [t EXCEPT !.pc = "done", !.local = ZeroAnalysis]
    ELSE [t EXCEPT !.pc = "sleep", !.stage = @ + 1, !.local = ZeroAnalysis,
                   !.clock = @ + stages[t.stage + 1].duration]

\* mapassign returns the slot.  For a new key (the handler's store) the entry
\* appears with its value; for an existing key the value copy starts.
LeaveMapassign(id) ==
    /\ Running
    /\ id \in DOMAIN task
    /\ task[id].pc = "assign"
    /\ IF id \notin DOMAIN analyses
       THEN /\ analyses' = analyses @@ (id :> task[id].local)
            /\ task' = [task EXCEPT ![id] = AfterStore(@)]
       ELSE /\ analyses' = analyses
            /\ task' = [task EXCEPT ![id].pc = "copy"]
    /\ resp' = NoResponse
    /\ UNCHANGED <<companies, uploadedFiles, issuedFiles, crashed>>

\* The value copy written into the slot of the first key of the map instead
\* of the slot of id.
CopyValue_IntoFirstSlot(id, u) ==
    /\ Running
    /\ id \in DOMAIN task
    /\ task[id].pc = "copy"
    /\ Differs(analyses[id], task[id].local, u)
    /\ LET k == CHOOSE k \in DOMAIN analyses : \A o \in DOMAIN analyses : k <= o
           stored == CopyUnit(analyses[k], task[id].local, u)
       IN  /\ analyses' = [analyses EXCEPT ![k] = stored]
           /\ task' = IF stored = task[id].local
                      THEN [task EXCEPT ![id] = AfterStore(@)]
                      ELSE task
    /\ resp' = NoResponse
    /\ UNCHANGED <<companies, uploadedFiles, issuedFiles, crashed>>

\* The value copy of `analyses[id] = analysis`, one unit of it.
CopyValue(id, u) ==
    /\ Running
    /\ id \in DOMAIN task
    /\ task[id].pc = "copy"
    /\ Differs(analyses[id], task[id].local, u)
    /\ LET stored == CopyUnit(analyses[id], task[id].local, u)
       IN  /\ analyses' = [analyses EXCEPT ![id] = stored]
           /\ task' = IF stored = task[id].local
                      THEN [task EXCEPT ![id] = AfterStore(@)]
                      ELSE task
    /\ resp' = NoResponse
    /\ UNCHANGED <<companies, uploadedFiles, issuedFiles, crashed>>

\* The handler running the processing itself (the `go` keyword left out):
\* it answers only when the loop has ended.
Spawn_WithoutGo(id) ==
    /\ Running
    /\ id \in DOMAIN task
    /\ \/ /\ task[id].pc = "stored"
          /\ task' = [task EXCEPT ![id] = [pc |-> "sleep", stage |-> 1,
                                           local |-> ZeroAnalysis,
                                           clock |-> task[id].clock + stages[1].duration]]
          /\ resp' = NoResponse
       \/ /\ task[id].pc = "done"
          /\ task' = [task EXCEPT ![id].pc = "returned"]
          /\ resp' = SuccessResponseWithMessage("StartAnalysis", analyses[id],
                                                "Analysis started successfully")
    /\ UNCHANGED <<companies, uploadedFiles, issuedFiles, analyses, crashed>>

\* A scheduler whose first stage is not preceded by a sleep.
Spawn_NoFirstDelay(id) ==
    /\ Running
    /\ id \in DOMAIN task
    /\ task[id].pc = "stored"
    /\ task' = [task EXCEPT ![id] = [pc |-> "sleep", stage |-> 1, local |-> ZeroAnalysis,
                                     clock |-> task[id].clock]]
    /\ resp' = SuccessResponseWithMessage("StartAnalysis", task[id].local,
                                          "Analysis started successfully")
    /\ UNCHANGED <<companies, uploadedFiles, issuedFiles, analyses, crashed>>

\* The handler answering without having started the scheduler.
Spawn_ForgetsScheduler(id) ==
    /\ Running
    /\ id \in DOMAIN task
    /\ task[id].pc = "stored"
    /\ task' = [task EXCEPT ![id].pc = "done"]
    /\ resp' = SuccessResponseWithMessage("StartAnalysis", task[id].local,
                                          "Analysis started successfully")
    /\ UNCHANGED <<companies, uploadedFiles, issuedFiles, analyses, crashed>>

\* Lines 225-227: `go simulateAnalysisProcessing(analysis.ID)`, whose first
\* statement is the sleep of stage 1, and the handler's response.
Spawn(id) ==
    /\ Running
    /\ id \in DOMAIN task
    /\ task[id].pc = "stored"
    /\ task' = [task EXCEPT ![id] = [pc |-> "sleep", stage |-> 1, local |-> ZeroAnalysis,
                                     clock |-> task[id].clock + stages[1].duration]]
    /\ resp' = SuccessResponseWithMessage("StartAnalysis", task[id].local,
                                          "Analysis started successfully")
    /\ UNCHANGED <<companies, uploadedFiles, issuedFiles, analyses, crashed>>

\* Lines 244-268 of one iteration: the sleep ends (task[id].clock is the
\* time), the record is read from the map and changed in the local copy.
\* r bounds the random source.  A goroutine inside mapassign makes the read
\* a race.
StageLoad(id, r) ==
    /\ Running
    /\ id \in DOMAIN task
    /\ task[id].pc = "sleep"
    /\ \/ /\ InMapassign(id)
          /\ Fatal
       \/ \E d \in Draws(r) :
            /\ task' = [task EXCEPT
                          ![id].pc = "write",
                          ![id].local = StageMutation(MapRead(id), stages[task[id].stage],
                                                      task[id].clock, d)]
            /\ resp' = NoResponse
            /\ UNCHANGED <<companies, uploadedFiles, issuedFiles, analyses, crashed>>

GetAnalysisResponse(analysisID) ==
    IF analysisID \notin DOMAIN analyses
    THEN NotFoundResponse("GetAnalysis", "Analysis")
    ELSE SuccessResponse("GetAnalysis", analyses[analysisID])

statusMessage(status) ==
    CASE status = StatusPending -> "Analysis queued for processing"
      [] status = StatusProcessing -> "Analysis in progress"
      [] status = StatusCompleted -> "Analysis completed successfully"
      [] status = StatusFailed -> "Analysis failed"
      [] OTHER -> ""

\* The status handler choosing its message by the progress.
GetAnalysisStatusResponse_MessageByProgress(analysisID) ==
    IF analysisID \notin DOMAIN analyses
    THEN NotFoundResponse("GetAnalysisStatus", "Analysis")
    ELSE LET analysis == analyses[analysisID]
         IN  SuccessResponse("GetAnalysisStatus",
                 [ID |-> analysis.ID, Status |-> analysis.Status,
                  Progress |-> analysis.Progress,
                  Message |-> IF analysis.Progress = 0
                              THEN statusMessage(StatusPending)
                              ELSE IF analysis.Progress = 100
                              THEN statusMessage(StatusCompleted)
                              ELSE statusMessage(StatusProcessing)])

GetAnalysisStatusResponse(analysisID) ==
    IF analysisID \notin DOMAIN analyses
    THEN NotFoundResponse("GetAnalysisStatus", "Analysis")
    ELSE LET analysis == analyses[analysisID]
         IN  SuccessResponse("GetAnalysisStatus",
                 [ID |-> analysis.ID, Status |-> analysis.Status,
                  Progress |-> analysis.Progress,
                  Message |-> statusMessage(analysis.Status)])

\* The report handler without the existence check.
GetAnalysisReportResponse_NoExistsCheck(analysisID) ==
    IF MapRead(analysisID).Status # StatusCompleted
    THEN ValidationErrorResponse("GetAnalysisReport", "Analysis not completed yet")
    ELSE SuccessResponseWithMessage("GetAnalysisReport", MapRead(analysisID),
                                    "Report generated successfully")

\* The report handler refusing only a pending analysis.
GetAnalysisReportResponse_RefusesPendingOnly(analysisID) ==
    IF analysisID \notin DOMAIN analyses
    THEN NotFoundResponse("GetAnalysisReport", "Analysis")
    ELSE IF analyses[analysisID].Status = StatusPending
    THEN ValidationErrorResponse("GetAnalysisReport", "Analysis not completed yet")
    ELSE SuccessResponseWithMessage("GetAnalysisReport", analyses[analysisID],
                                    "Report generated successfully")

GetAnalysisReportResponse(analysisID) ==
    IF analysisID \notin DOMAIN analyses
    THEN NotFoundResponse("GetAnalysisReport", "Analysis")
    ELSE IF analyses[analysisID].Status # StatusCompleted
    THEN ValidationErrorResponse("GetAnalysisReport", "Analysis not completed yet")
    ELSE SuccessResponseWithMessage("GetAnalysisReport", analyses[analysisID],
                                    "Report generated successfully")

\* A handler that only reads `analyses` and answers with `response`.
ReadHandler(response) ==
    /\ Running
    /\ \/ /\ InMapassign(0)
          /\ Fatal
       \/ /\ resp' = response
          /\ UNCHANGED <<companies, uploadedFiles, issuedFiles, analyses, task, crashed>>

\* A read that creates the entry it does not find.
GetAnalysis_InsertsMissing(analysisID) ==
    /\ Running
    /\ resp' = GetAnalysisResponse(analysisID)
    /\ analyses' = IF analysisID \in DOMAIN analyses
                   THEN analyses
                   ELSE analyses @@ (analysisID :> ZeroAnalysis)
    /\ UNCHANGED <<companies, uploadedFiles, issuedFiles, task, crashed>>

GetAnalysis(analysisID) == ReadHandler(GetAnalysisResponse(analysisID))

GetAnalysisStatus(analysisID) == ReadHandler(GetAnalysisStatusResponse(analysisID))

GetAnalysisReport(analysisID) == ReadHandler(GetAnalysisReportResponse(analysisID))

\* The handler that wrote `resp` returns; the response is with the client.
Return ==
    /\ ~crashed
    /\ resp # NoResponse
    /\ resp' = NoResponse
    /\ UNCHANGED <<companies, uploadedFiles, issuedFiles, analyses, task, crashed>>

-----------------------------------------------------------------------------

Init ==
    /\ companies = <<>>
    /\ uploadedFiles = <<>>
    /\ issuedFiles = {}
    /\ analyses = <<>>
    /\ task = <<>>
    /\ crashed = FALSE
    /\ resp = NoResponse

Next ==
    \/ \E name \in CompanyNames \cup {""} : CreateCompany(name)
    \/ \E id \in 0..MaxCompanies : GetCompany(id)
    \/ \E id \in 0..MaxCompanies, bound \in BOOLEAN, name \in CompanyNames \cup {""} :
          UpdateCompany(id, bound, name)
    \/ \E files \in UNION {[1..n -> SubmittedFiles] : n \in 0..MaxFileList} :
          UploadFiles(TRUE, TRUE, files)
    \/ \E mkdir \in BOOLEAN : UploadFiles(mkdir, ~mkdir, <<>>)
    \/ \E id \in 0..MaxFiles : GetUploadStatus(id)
    \/ \E id \in 0..MaxFiles, removed \in BOOLEAN : DeleteUpload(id, removed)
    \/ \E req \in StartRequests : StartAnalysis(req)
    \/ \E id \in AnalysisIds : EnterMapassign(id)
    \/ \E id \in AnalysisIds : LeaveMapassign(id)
    \/ \E id \in AnalysisIds, u \in CopyUnits : CopyValue(id, u)
    \/ \E id \in AnalysisIds : Spawn(id)
    \/ \E id \in AnalysisIds : StageLoad(id, MaxRand)
    \/ \E id \in 0..MaxAnalyses : GetAnalysis(id)
    \/ \E id \in 0..MaxAnalyses : GetAnalysisStatus(id)
    \/ \E id \in 0..MaxAnalyses : GetAnalysisReport(id)
    \/ Return

Spec == Init /\ [][Next]_vars

-----------------------------------------------------------------------------
(* Vocabulary of the properties *)

\* The request names an existing company and only existing files.
ValidStart(req) ==
    /\ req.HasFileIDs
    /\ req.CompanyID \in DOMAIN companies
    /\ \A i \in 1..Len(req.FileIDs) : req.FileIDs[i] \in DOMAIN uploadedFiles

\* uuid.New() has produced id for some StartAnalysis call.
Generated(id) == id \in DOMAIN task

\* The scheduler goroutine of id exists (the handler has executed `go`).
Launched(id) == id \in DOMAIN task /\ task[id].stage > 0

Completed(id) == id \in DOMAIN analyses /\ analyses[id].Status = StatusCompleted

\* The result fields of a record are as in a record that was never completed.
ResultsUnset(a) ==
    /\ a.OverallScore = ZeroAnalysis.OverallScore
    /\ a.Recommendation = ""
    /\ a.KeyMetrics = <<>>
    /\ a.Insights = <<>>
    /\ a.Risks = <<>>
    /\ a.CompletedAt = <<>>

\* A step of the goroutine that works on id.
TaskStep(id) ==
    \/ EnterMapassign(id)
    \/ LeaveMapassign(id)
    \/ \E u \in CopyUnits : CopyValue(id, u)
    \/ Spawn(id)
    \/ StageLoad(id, MaxRand)

-----------------------------------------------------------------------------
(* C1: every StartAnalysis call that names an existing company and only    *)
(* existing files builds a record under an id that was in use nowhere, and *)
(* when the call answers the record is in the registry and the answer is   *)
(* that record: status pending, progress 0, the requested company, the new *)
(* id.                                                                     *)
C1_StartAnalysisReturnsPendingRecord ==
    [][ /\ \A req \in StartRequests :
              (ValidStart(req) /\ StartAnalysis(req)) =>
                 \E id \in AnalysisIds :
                    /\ id \notin DOMAIN task
                    /\ id \notin DOMAIN analyses
                    /\ id \in DOMAIN task'
                    /\ task'[id].pc = "write"
                    /\ task'[id].local.ID = id
                    /\ task'[id].local.CompanyID = req.CompanyID
                    /\ task'[id].local.Status = StatusPending
                    /\ task'[id].local.Progress = 0
        /\ \A id \in AnalysisIds :
              Spawn(id) =>
                 /\ resp'.code = StatusOK
                 /\ resp'.data = task[id].local
                 /\ resp'.data.ID = id
                 /\ resp'.data.Status = StatusPending
                 /\ resp'.data.Progress = 0
                 /\ id \in DOMAIN analyses
                 /\ analyses[id] = resp'.data
      ]_vars

\* The second of two StartAnalysis calls has answered with its pending record.
C1_Witness ==
    /\ resp.op = "StartAnalysis"
    /\ resp.code = StatusOK
    /\ resp.data.Status = StatusPending
    /\ resp.data.Progress = 0
    /\ resp.data.ID \in DOMAIN analyses
    /\ Cardinality(DOMAIN analyses) = 2

C3_MissingFileIsValidationError ==
    [][ \A req \in StartRequests :
           ( /\ req.HasFileIDs
             /\ req.CompanyID \in DOMAIN companies
             /\ \E i \in 1..Len(req.FileIDs) : req.FileIDs[i] \notin DOMAIN uploadedFiles
             /\ StartAnalysis(req) ) =>
              /\ UNCHANGED <<analyses, task>>
              /\ resp'.code = StatusBadRequest
              /\ resp'.success = FALSE
      ]_vars

\* StartAnalysis has rejected a list for a missing file while the company
\* and another file exist.
C3_Witness ==
    /\ resp.op = "StartAnalysis"
    /\ resp.code = StatusBadRequest
    /\ resp.error = "File " \o ToString(MaxFiles + 1) \o " not found"
    /\ companies # <<>>
    /\ uploadedFiles # <<>>

(* C4: GetAnalysis, GetAnalysisStatus and GetAnalysisReport called with an *)
(* id that no StartAnalysis call has generated (so that none has returned  *)
(* it) answer NotFound (404), in every reachable state.                    *)
C4_UnknownIdIsNotFound ==
    [][ \A id \in 0..MaxAnalyses :
           ~Generated(id) =>
              /\ (GetAnalysis(id) /\ ~crashed') =>
                    resp' = NotFoundResponse("GetAnalysis", "Analysis")
              /\ (GetAnalysisStatus(id) /\ ~crashed') =>
                    resp' = NotFoundResponse("GetAnalysisStatus", "Analysis")
              /\ (GetAnalysisReport(id) /\ ~crashed') =>
                    resp' = NotFoundResponse("GetAnalysisReport", "Analysis")
      ]_vars

\* A read has answered NotFound while the registry holds a record.
C4_Witness ==
    /\ resp = NotFoundResponse("GetAnalysisReport", "Analysis")
    /\ analyses # <<>>
    /\ \E id \in AnalysisIds : ~Generated(id)

(* C5: GetAnalysisReport on an existing analysis fails with                *)
(* ValidationError (400) whenever the stored status is not completed, and  *)
(* when it is completed returns the stored record, the same data           *)
(* GetAnalysis returns in that state.                                      *)
C5_ReportOnlyWhenCompleted ==
    [][ \A id \in DOMAIN analyses :
           (GetAnalysisReport(id) /\ ~crashed') =>
              IF analyses[id].Status # StatusCompleted
              THEN resp' = ValidationErrorResponse("GetAnalysisReport",
                                                   "Analysis not completed yet")
              ELSE /\ resp'.code = StatusOK
                   /\ resp'.data = analyses[id]
                   /\ resp'.data = GetAnalysisResponse(id).data
      ]_vars

\* The report of the only analysis was refused while it was processing.
C5_Witness ==
    /\ resp = ValidationErrorResponse("GetAnalysisReport", "Analysis not completed yet")
    /\ \E id \in DOMAIN analyses :
          /\ DOMAIN analyses = {id}
          /\ analyses[id].Status = StatusProcessing

(* C6: for every analysis id the progress a GetAnalysisStatus or           *)
(* GetAnalysis call returns never decreases from one moment to the next,   *)
(* whatever steps (of its scheduler, of other analyses, of other handlers) *)
(* lie between two reads.                                                  *)
C6_ProgressReadsNonDecreasing ==
    [][ \A id \in DOMAIN analyses :
           /\ id \in DOMAIN analyses'
           /\ GetAnalysisStatusResponse(id)'.data.Progress
                 >= GetAnalysisStatusResponse(id).data.Progress
           /\ GetAnalysisResponse(id)'.data.Progress
                 >= GetAnalysisResponse(id).data.Progress
      ]_vars

\* GetAnalysisStatus has returned progress 75 for one analysis while another
\* one is behind it.
C6_Witness ==
    /\ resp.op = "GetAnalysisStatus"
    /\ resp.code = StatusOK
    /\ resp.data.Progress = 75
    /\ \E id \in DOMAIN analyses : analyses[id].Progress < 75

(* C7 as claimed, in the form a finite run refutes: every analysis whose   *)
(* StartAnalysis call has launched its scheduler either is completed with  *)
(* progress 100 or                                                         *)
(* its goroutine can take a further step (at once, or as soon as the       *)
(* handler that has just answered returns), so that under fair scheduling  *)
(* it reaches completed.                                                   *)
C7_EveryAnalysisCanStillComplete ==
    \A id \in DOMAIN task :
       Launched(id) =>
          \/ Completed(id) /\ analyses[id].Progress = 100
          \/ ENABLED TaskStep(id)
          \/ ENABLED Return

(* C8 as claimed, of every record a GetAnalysis call returns: progress is  *)
(* in 0..100 and is 100 if and only if status is completed.                *)
C8_ProgressHundredIffCompleted ==
    (resp.op = "GetAnalysis" /\ resp.code = StatusOK) =>
       /\ resp.data.Progress \in 0..100
       /\ (resp.data.Progress = 100) <=> (resp.data.Status = StatusCompleted)

(* C9 as claimed, of every record a GetAnalysis call returns: when its     *)
(* status is not completed, overall_score, recommendation, key_metrics,    *)
(* insights, risks and completed_at are unset.                             *)
C9_ResultsUnsetUntilCompleted ==
    (resp.op = "GetAnalysis" /\ resp.code = StatusOK
        /\ resp.data.Status # StatusCompleted) =>
       ResultsUnset(resp.data)

(* C10 as claimed: once a stored record has status completed, no step      *)
(* changes its status, progress, overall_score, recommendation,            *)
(* key_metrics, insights, risks or completed_at.                           *)
C10_CompletedRecordIsFrozen ==
    [][ \A id \in DOMAIN analyses :
           analyses[id].Status = StatusCompleted =>
              /\ id \in DOMAIN analyses'
              /\ analyses'[id].Status = analyses[id].Status
              /\ analyses'[id].Progress = analyses[id].Progress
              /\ analyses'[id].OverallScore = analyses[id].OverallScore
              /\ analyses'[id].Recommendation = analyses[id].Recommendation
              /\ analyses'[id].KeyMetrics = analyses[id].KeyMetrics
              /\ analyses'[id].Insights = analyses[id].Insights
              /\ analyses'[id].Risks = analyses[id].Risks
              /\ analyses'[id].CompletedAt = analyses[id].CompletedAt
      ]_vars

-----------------------------------------------------------------------------
(* Vocabulary of the concurrency properties *)

\* The goroutine of id is inside `analyses[id] = v`: in runtime.mapassign or
\* copying the value into the slot.
Storing(id) == id \in DOMAIN task /\ task[id].pc \in {"assign", "copy"}

ReadOps == {"GetAnalysis", "GetAnalysisStatus", "GetAnalysisReport"}

\* The time at which the scheduler applies its k-th stage (0: creation).
RECURSIVE CheckpointTime(_)
CheckpointTime(k) ==
    IF k = 0 THEN 1 ELSE CheckpointTime(k - 1) + stages[k].duration

\* The records an analysis can hold after k whole scheduler transitions.
RECURSIVE Checkpoints(_, _, _)
Checkpoints(id, companyID, k) ==
    IF k = 0
    THEN {NewAnalysis(id, companyID, CheckpointTime(0))}
    ELSE {StageMutation(a, stages[k], CheckpointTime(k), d) :
             a \in Checkpoints(id, companyID, k - 1), d \in Draws(MaxRand)}

(* C11 as claimed: in no reachable state do two operations touch the       *)
(* analyses map at the same time when one of them is a write: at most one  *)
(* goroutine is inside a store, and no GetAnalysis, GetAnalysisStatus or   *)
(* GetAnalysisReport call has read the map while a goroutine was inside a  *)
(* store, whatever the ids.                                                *)
C11_NoOverlappingMapAccess ==
    /\ Cardinality({id \in DOMAIN task : Storing(id)}) <= 1
    /\ resp.op \in ReadOps => \A id \in DOMAIN task : ~Storing(id)

(* C12 as claimed, of every record a GetAnalysis call returns: it is the   *)
(* whole record as it was before or after a scheduler transition, that is, *)
(* the record as created or the result of applying the first k stages to   *)
(* it, never a mixture of two of them.                                     *)
C12_ReadsSeeWholeRecords ==
    (resp.op = "GetAnalysis" /\ resp.code = StatusOK) =>
       \E k \in 0..Len(stages) :
          resp.data \in Checkpoints(resp.data.ID, resp.data.CompanyID, k)

(* C13: after a record is created, a step changes it only if it is a step  *)
(* of the value copy of the scheduler launched for its id, and then the    *)
(* change is a piece of that scheduler's own write; every other step (a    *)
(* scheduler of another id, any request handler) leaves the record and the *)
(* set of ids it belongs to as they are.                                   *)
C13_OnlyOwnSchedulerWrites ==
    [][ \A id \in DOMAIN analyses :
           /\ id \in DOMAIN analyses'
           /\ analyses'[id] # analyses[id] =>
                 /\ Launched(id)
                 /\ task[id].pc = "copy"
                 /\ \E u \in CopyUnits :
                       /\ CopyValue(id, u)
                       /\ analyses'[id] = CopyUnit(analyses[id], task[id].local, u)
                 /\ \A o \in DOMAIN analyses \ {id} : analyses'[o] = analyses[o]
      ]_vars

\* One analysis has been taken to its end by its scheduler while the record
\* of the other, whose scheduler is running too, is still as created.
C13_Witness ==
    \E a, b \in DOMAIN analyses :
       /\ a # b
       /\ analyses[a].Progress = 100
       /\ Launched(b)
       /\ analyses[b] = NewAnalysis(b, analyses[b].CompanyID, 1)

(* C14: a GetAnalysis, GetAnalysisStatus or GetAnalysisReport call, with   *)
(* any id and whatever it answers, leaves every record and the set of ids  *)
(* of the registry unchanged.                                              *)
C14_ReadsLeaveRegistryUnchanged ==
    [][ \A id \in 0..MaxAnalyses :
           (GetAnalysis(id) \/ GetAnalysisStatus(id) \/ GetAnalysisReport(id)) =>
              /\ DOMAIN analyses' = DOMAIN analyses
              /\ \A o \in DOMAIN analyses : analyses'[o] = analyses[o]
      ]_vars

\* GetAnalysisStatus has answered for one of two analyses while a scheduler
\* was in the middle of a store.
C14_Witness ==
    /\ resp.op = "GetAnalysisStatus"
    /\ resp.code = StatusOK
    /\ Cardinality(DOMAIN analyses) = 2
    /\ \E id \in DOMAIN task : task[id].pc = "copy"

(* C15: every StartAnalysis call that creates a record gives it an id that *)
(* differs from the id of every record stored or being stored; its store   *)
(* adds a key that was not in the registry and leaves every existing entry *)
(* as it is; and the id it answers with is the id of no other record. This *)
(* holds for concurrent calls and for repeated calls with the same company *)
(* and files.                                                              *)
C15_IdsAreFresh ==
    [][ /\ \A id \in DOMAIN task' \ DOMAIN task :
              /\ id \notin DOMAIN analyses
              /\ \A o \in DOMAIN analyses : analyses[o].ID # task'[id].local.ID
              /\ \A o \in DOMAIN task :
                    task[o].stage = 0 => task[o].local.ID # task'[id].local.ID
        /\ \A id \in DOMAIN task :
              (task[id].stage = 0 /\ LeaveMapassign(id)) =>
                 /\ id \notin DOMAIN analyses
                 /\ DOMAIN analyses' = DOMAIN analyses \cup {id}
                 /\ \A o \in DOMAIN analyses : analyses'[o] = analyses[o]
        /\ \A id \in DOMAIN task :
              Spawn(id) =>
                 \A o \in DOMAIN analyses \ {id} : analyses[o].ID # resp'.data.ID
      ]_vars

\* A second StartAnalysis call for the same company has answered with its
\* own id while the record of the first is stored.
C15_Witness ==
    /\ resp.op = "StartAnalysis"
    /\ resp.code = StatusOK
    /\ \E o \in DOMAIN analyses :
          /\ analyses[o].ID # resp.data.ID
          /\ analyses[o].CompanyID = resp.data.CompanyID

(* C16 as claimed, of every record GetAnalysisReport returns (its status   *)
(* is completed): key_metrics holds exactly four metrics, overall_score is *)
(* the arithmetic mean of their values, and overall_score lies in [0,10].  *)
C16_CompletedScoreIsMeanOfFour ==
    (resp.op = "GetAnalysisReport" /\ resp.code = StatusOK) =>
       /\ resp.data.Status = StatusCompleted
       /\ Len(resp.data.KeyMetrics) = 4
       /\ resp.data.OverallScore * 4 * MetricScale
             = SumValues(resp.data.KeyMetrics, Len(resp.data.KeyMetrics)) * ScoreScale
       /\ resp.data.OverallScore >= 0
       /\ resp.data.OverallScore <= 10 * ScoreScale

(* C17 as claimed, of every record with status completed that GetAnalysis  *)
(* or GetAnalysisReport returns: its recommendation is the label of the    *)
(* band of its overall_score, the bands being score >= 8.5, 7.5 <= score   *)
(* < 8.5, 6.5 <= score < 7.5, 5.5 <= score < 6.5 and score < 5.5.          *)
C17_RecommendationMatchesScore ==
    (resp.op \in {"GetAnalysis", "GetAnalysisReport"} /\ resp.code = StatusOK
        /\ resp.data.Status = StatusCompleted) =>
       LET score == resp.data.OverallScore
           label == resp.data.Recommendation
       IN  /\ score * 10 >= 85 * ScoreScale
                 => label = "Exceptional Investment Opportunity"
           /\ (score * 10 >= 75 * ScoreScale /\ score * 10 < 85 * ScoreScale)
                 => label = "Strong Investment Opportunity"
           /\ (score * 10 >= 65 * ScoreScale /\ score * 10 < 75 * ScoreScale)
                 => label = "Moderate Investment Potential"
           /\ (score * 10 >= 55 * ScoreScale /\ score * 10 < 65 * ScoreScale)
                 => label = "Proceed with Caution"
           /\ score * 10 < 55 * ScoreScale
                 => label = "High Risk Investment"

(* C18: the stored status of a record starts as pending and from then on   *)
(* every step either leaves it as it is or takes it from pending to        *)
(* processing or from processing to completed; nothing leaves completed or *)
(* failed and nothing moves backwards.                                     *)
C18_StatusMovesForward ==
    [][ \A id \in DOMAIN analyses' :
           IF id \notin DOMAIN analyses
           THEN analyses'[id].Status = StatusPending
           ELSE \/ analyses'[id].Status = analyses[id].Status
                \/ /\ analyses[id].Status = StatusPending
                   /\ analyses'[id].Status = StatusProcessing
                \/ /\ analyses[id].Status = StatusProcessing
                   /\ analyses'[id].Status = StatusCompleted
      ]_vars

\* One analysis has gone from pending to completed and its scheduler has
\* returned, while the other analysis is processing.
C18_Witness ==
    \E a, b \in DOMAIN analyses :
       /\ analyses[a].Status = StatusCompleted
       /\ analyses[b].Status = StatusProcessing
       /\ task[a].pc = "done"

(* C19: GetAnalysisStatus on an existing id answers with the id, the       *)
(* status and the progress of the record as stored at that moment and with *)
(* a message fixed by the status alone: one message for each of pending,   *)
(* processing, completed and failed, the four being different, whatever    *)
(* the progress.                                                           *)
C19_StatusMessageByStatusOnly ==
    [][ LET message == [pending    |-> "Analysis queued for processing",
                        processing |-> "Analysis in progress",
                        completed  |-> "Analysis completed successfully",
                        failed     |-> "Analysis failed"]
        IN  /\ \A id \in DOMAIN analyses :
                  (GetAnalysisStatus(id) /\ ~crashed') =>
                     /\ resp'.code = StatusOK
                     /\ resp'.data.ID = analyses[id].ID
                     /\ resp'.data.Status = analyses[id].Status
                     /\ resp'.data.Progress = analyses[id].Progress
                     /\ resp'.data.Message = message[analyses[id].Status]
            /\ \A st \in {StatusPending, StatusProcessing, StatusCompleted, StatusFailed} :
                  statusMessage(st) = message[st]
            /\ Cardinality({message[st] : st \in DOMAIN message}) = 4
      ]_vars

\* GetAnalysisStatus has answered "completed" with the message of completed
\* for a record whose progress was not yet 100.
C19_Witness ==
    /\ resp.op = "GetAnalysisStatus"
    /\ resp.code = StatusOK
    /\ resp.data.Status = StatusCompleted
    /\ resp.data.Progress < 100
    /\ resp.data.Message = "Analysis completed successfully"

(* C20 as claimed, of every stored record: after every step completed_at   *)
(* is absent unless the status is completed, the step that makes the       *)
(* status completed sets it, and once set it keeps its value.              *)
C20_CompletedAtSetWithCompleted ==
    [][ \A id \in DOMAIN analyses :
           /\ id \in DOMAIN analyses'
           /\ analyses'[id].Status # StatusCompleted => analyses'[id].CompletedAt = <<>>
           /\ (analyses[id].Status # StatusCompleted
                  /\ analyses'[id].Status = StatusCompleted)
                 => analyses'[id].CompletedAt # <<>>
           /\ analyses[id].CompletedAt # <<>>
                 => analyses'[id].CompletedAt = analyses[id].CompletedAt
      ]_vars

(* C21: the StartAnalysis handler answers in the step in which it starts   *)
(* the scheduler, before the scheduler has taken any step: at that moment  *)
(* the stored record is still the pending record and the scheduler is at   *)
(* its first sleep. No handler waits for a scheduler: whatever the         *)
(* schedulers are doing, the handler that has stored its record can        *)
(* answer, a new StartAnalysis call can be served and every GetAnalysis,   *)
(* GetAnalysisStatus and GetAnalysisReport call can read.                  *)
C21_HandlersNeverWaitForScheduler ==
    [][ /\ \A id \in DOMAIN task :
              Spawn(id) =>
                 /\ task[id].stage = 0
                 /\ resp'.op = "StartAnalysis"
                 /\ resp'.code = StatusOK
                 /\ resp'.data.Status = StatusPending
                 /\ analyses[id].Status = StatusPending
                 /\ task'[id].pc = "sleep"
                 /\ task'[id].stage = 1
        /\ Running =>
              /\ \A id \in DOMAIN task : task[id].pc = "stored" => ENABLED Spawn(id)
              /\ \E req \in StartRequests : ENABLED StartAnalysis(req)
              /\ \A id \in 0..MaxAnalyses :
                    /\ ENABLED GetAnalysis(id)
                    /\ ENABLED GetAnalysisStatus(id)
                    /\ ENABLED GetAnalysisReport(id)
      ]_vars

\* A StartAnalysis call has answered with its pending record while the
\* scheduler of another analysis was in the middle of a store.
C21_Witness ==
    /\ resp.op = "StartAnalysis"
    /\ resp.code = StatusOK
    /\ analyses[resp.data.ID].Status = StatusPending
    /\ task[resp.data.ID].pc = "sleep"
    /\ \E o \in DOMAIN task : task[o].pc = "copy"

(* C22 as claimed: no pacing delay precedes the first transition, that is, *)
(* the scheduler applies pending -> processing at the time at which it was *)
(* started, which is the time the record was created.                      *)
C22_Original_NoDelayBeforeFirstTransition ==
    [][ \A id \in DOMAIN task :
           (task[id].stage = 1 /\ StageLoad(id, MaxRand) /\ ~crashed') =>
              /\ task'[id].local.Status = StatusProcessing
              /\ task'[id].local.Progress > 0
              /\ task'[id].local.UpdatedAt = analyses[id].CreatedAt
      ]_vars

(* C22 as the code has it: the scheduler's first action after being        *)
(* started is the pacing delay of the first stage (2 s), during which the  *)
(* record stays pending with progress 0; the pending -> processing         *)
(* transition (progress 25) is what it does next, at the creation time     *)
(* plus that delay.                                                        *)
C22_FirstTransitionFollowsFirstDelay ==
    [][ \A id \in DOMAIN task :
           /\ Spawn(id) =>
                 /\ stages[1].duration > 0
                 /\ task'[id].pc = "sleep"
                 /\ task'[id].clock = task[id].clock + stages[1].duration
                 /\ analyses'[id].Status = StatusPending
                 /\ analyses'[id].Progress = 0
           /\ (task[id].stage = 1 /\ StageLoad(id, MaxRand) /\ ~crashed') =>
                 /\ analyses[id].Status = StatusPending
                 /\ task'[id].local.Status = StatusProcessing
                 /\ task'[id].local.Progress = 25
                 /\ task'[id].local.UpdatedAt = analyses[id].CreatedAt + stages[1].duration
      ]_vars

\* The scheduler has slept for the first stage and has made the first
\* transition in its copy of the record; the stored record is still pending.
C22_Witness ==
    \E id \in DOMAIN task :
       /\ task[id].stage = 1
       /\ task[id].pc = "write"
       /\ task[id].local.Progress = 25
       /\ task[id].local.UpdatedAt > analyses[id].CreatedAt
       /\ analyses[id].Status = StatusPending

(* C23 as claimed, of every stored record: its (status, progress) pair is  *)
(* one of (pending,0), (processing,25), (processing,50), (processing,75),  *)
(* (completed,100), each checkpoint appearing by one write.                *)
C23_StoredPairIsACheckpoint ==
    \A id \in DOMAIN analyses :
       <<analyses[id].Status, analyses[id].Progress>> \in
          { <<StatusPending, 0>>, <<StatusProcessing, 25>>, <<StatusProcessing, 50>>,
            <<StatusProcessing, 75>>, <<StatusCompleted, 100>> }

(* C24: the table of stages has exactly one completing stage; in the loop  *)
(* iteration of a stage that does not complete the scheduler generates no  *)
(* results (its copy of the record has the result fields as read, unset);  *)
(* in the completing iteration the results are one output of the           *)
(* generators: four metrics, their mean, the recommendation of that mean,  *)
(* one insight list and one risk list; and the step in which the           *)
(* generators run leaves the registry as it is.                            *)
C24_ScoringOnlyInCompletingStage ==
    [][ /\ Cardinality({k \in 1..Len(stages) : stages[k].status = StatusCompleted}) = 1
        /\ \A id \in DOMAIN task :
              (StageLoad(id, MaxRand) /\ ~crashed') =>
                 LET stage == stages[task[id].stage]
                     old == MapRead(id)
                     new == task'[id].local
                 IN  /\ analyses' = analyses
                     /\ ResultsUnset(old)
                     /\ IF stage.status = StatusCompleted
                        THEN \E d \in Draws(MaxRand) :
                                /\ new.KeyMetrics = generateMockMetrics(d.f)
                                /\ new.OverallScore = MeanScore(new.KeyMetrics)
                                /\ new.Recommendation =
                                      generateRecommendation(new.OverallScore)
                                /\ new.Insights = generateMockInsights(d.i)
                                /\ new.Risks = generateMockRisks(d.k)
                        ELSE ResultsUnset(new)
      ]_vars

\* The scheduler has generated the results in its completing iteration and
\* has not yet written them: the stored record is processing without results.
C24_Witness ==
    \E id \in DOMAIN task :
       /\ task[id].stage = Len(stages)
       /\ task[id].pc = "write"
       /\ Len(task[id].local.KeyMetrics) = 4
       /\ analyses[id].Status = StatusProcessing
       /\ ResultsUnset(analyses[id])

(* C25: a StartAnalysis call that fails creates no goroutine; the step in  *)
(* which a successful call answers starts the scheduler of the new id, of  *)
(* no other id, and is the only step that starts a scheduler; an id whose  *)
(* scheduler has been started never gets a second one; and every stored    *)
(* record has its scheduler started, or its handler is about to start it.  *)
C25_OneSchedulerPerRecord ==
    [][ /\ (resp'.op = "StartAnalysis" /\ resp'.code # StatusOK) =>
              UNCHANGED <<task, analyses>>
        /\ \A id \in DOMAIN task :
              /\ Spawn(id) =>
                    /\ ~Launched(id)
                    /\ Launched(id)'
                    /\ resp'.code = StatusOK
                    /\ \A o \in DOMAIN task \ {id} : Launched(o)' <=> Launched(o)
              /\ (~Launched(id) /\ Launched(id)') => Spawn(id)
              /\ Launched(id) => (Launched(id)' /\ ~Spawn(id))
        /\ \A id \in DOMAIN analyses :
              /\ id \in DOMAIN task
              /\ Launched(id) \/ task[id].pc = "stored"
      ]_vars

\* A StartAnalysis call has failed while the one record there is has its
\* scheduler, and no further goroutine exists.
C25_Witness ==
    /\ resp.op = "StartAnalysis"
    /\ resp.code # StatusOK
    /\ DOMAIN analyses # {}
    /\ DOMAIN task = DOMAIN analyses
    /\ \A id \in DOMAIN analyses : Launched(id)

(* C26 as claimed, of every stored record: when its status is completed,   *)
(* key_metrics has four entries, recommendation, insights and risks are    *)
(* non-empty and completed_at is set.                                      *)
C26_CompletedRecordHasResults ==
    \A id \in DOMAIN analyses :
       analyses[id].Status = StatusCompleted =>
          /\ Len(analyses[id].KeyMetrics) = 4
          /\ analyses[id].Recommendation # ""
          /\ analyses[id].Insights # <<>>
          /\ analyses[id].Risks # <<>>
          /\ analyses[id].CompletedAt # <<>>

(* C27: in no reachable state is the status failed: not in a stored        *)
(* record, not in the record a handler or a scheduler is about to store,   *)
(* not in a record or status an operation returns.                         *)
C27_NoRecordIsFailed ==
    /\ \A id \in DOMAIN analyses : analyses[id].Status # StatusFailed
    /\ \A id \in DOMAIN task : task[id].local.Status # StatusFailed
    /\ (resp.op \in ReadOps \cup {"StartAnalysis"} /\ resp.code = StatusOK)
          => resp.data.Status # StatusFailed

\* The process has ended on a fatal error with one record processing and
\* another completed.
C27_Witness ==
    /\ crashed
    /\ \E a, b \in DOMAIN analyses :
          /\ analyses[a].Status = StatusProcessing
          /\ analyses[b].Status = StatusCompleted

(* C28 as claimed: when a step of a scheduler faults (the runtime raises   *)
(* a fatal error in it), the record of that scheduler has status failed    *)
(* afterwards and the goroutines of the other analyses can go on.          *)
C28_FaultIsRecordedAsFailed ==
    [][ \A id \in DOMAIN task :
           (Launched(id) /\ TaskStep(id) /\ crashed') =>
              /\ id \in DOMAIN analyses'
              /\ analyses'[id].Status = StatusFailed
              /\ \A o \in DOMAIN task \ {id} :
                    task[o].pc # "done" => (ENABLED TaskStep(o))'
      ]_vars

(* C29: no step changes the id, the company_id or the created_at of a      *)
(* stored record; the record a scheduler builds in a loop iteration has    *)
(* the three as it read them; and an UpdateCompany call, on the referenced *)
(* company or any other, leaves every analysis record as it is.            *)
C29_IdentityFieldsNeverChange ==
    [][ /\ \A id \in DOMAIN analyses :
              /\ id \in DOMAIN analyses'
              /\ analyses'[id].ID = analyses[id].ID
              /\ analyses'[id].CompanyID = analyses[id].CompanyID
              /\ analyses'[id].CreatedAt = analyses[id].CreatedAt
              /\ (StageLoad(id, MaxRand) /\ ~crashed') =>
                    /\ task'[id].local.ID = analyses[id].ID
                    /\ task'[id].local.CompanyID = analyses[id].CompanyID
                    /\ task'[id].local.CreatedAt = analyses[id].CreatedAt
        /\ resp'.op = "UpdateCompany" => analyses' = analyses
      ]_vars

\* UpdateCompany has renamed the company of an analysis that is past its
\* first checkpoint and still has its company id and creation time.
C29_Witness ==
    /\ resp.op = "UpdateCompany"
    /\ resp.code = StatusOK
    /\ resp.data.Name = "Beta"
    /\ \E id \in DOMAIN analyses :
          /\ analyses[id].CompanyID = resp.data.ID
          /\ analyses[id].Progress >= 50
          /\ analyses[id].CreatedAt = CheckpointTime(0)

(* C30: the updated_at of a stored record never decreases; in every loop   *)
(* iteration the scheduler sets updated_at to the time of that iteration,  *)
(* which is later than the updated_at it read; and when the store of the   *)
(* k-th checkpoint is complete the record's updated_at is the time of the  *)
(* k-th checkpoint.                                                        *)
C30_UpdatedAtRefreshedByEveryWrite ==
    [][ \A id \in DOMAIN analyses :
           /\ id \in DOMAIN analyses'
           /\ analyses'[id].UpdatedAt >= analyses[id].UpdatedAt
           /\ (StageLoad(id, MaxRand) /\ ~crashed') =>
                 /\ task'[id].local.UpdatedAt = task[id].clock
                 /\ task'[id].local.UpdatedAt > analyses[id].UpdatedAt
           /\ (task[id].pc = "copy" /\ task'[id].pc # "copy") =>
                 /\ analyses'[id].UpdatedAt = CheckpointTime(task[id].stage)
                 /\ analyses'[id].UpdatedAt > CheckpointTime(task[id].stage - 1)
      ]_vars

\* The four writes of an analysis are done: its updated_at is the time of
\* the last checkpoint, later than its creation.
C30_Witness ==
    \E id \in DOMAIN analyses :
       /\ task[id].pc = "done"
       /\ analyses[id].UpdatedAt = CheckpointTime(Len(stages))
       /\ analyses[id].UpdatedAt > analyses[id].CreatedAt

-----------------------------------------------------------------------------
-----------------------------------------------------------------------------
(* The scoring of one analysis with the random source at its full width:  *)
(* one company, one request without files, the goroutines of the analysis *)
(* and a reader.  rand.Float64() takes each of its RandDen values and      *)
(* rand.Intn(3) each of its three.                                         *)

MaxScoreRand == 3

ScoringNext ==
    \/ CreateCompany("Acme")
    \/ \E req \in StartRequests : task = <<>> /\ ValidStart(req) /\ StartAnalysis(req)
    \/ \E id \in AnalysisIds : EnterMapassign(id)
    \/ \E id \in AnalysisIds : LeaveMapassign(id)
    \/ \E id \in AnalysisIds, u \in CopyUnits : CopyValue(id, u)
    \/ \E id \in AnalysisIds : Spawn(id)
    \/ \E id \in AnalysisIds : StageLoad(id, MaxScoreRand)
    \/ \E id \in AnalysisIds : GetAnalysis(id)
    \/ Return

ScoringSpec == Init /\ [][ScoringNext]_vars

\* Every record a metric list can be seen in: the stored ones, the local
\* copies of the goroutines, and the one a read has just returned.
VisibleRecords ==
    {analyses[id] : id \in DOMAIN analyses}
    \cup {task[id].local : id \in DOMAIN task}
    \cup (IF resp.op = "GetAnalysis" /\ resp.code = StatusOK THEN {resp.data} ELSE {})

(* C32: the colour (tier) of every metric of every record, stored, being   *)
(* built or returned, is given by its value alone: green (high) from 8.0   *)
(* on, yellow (medium) from 6.0 up to but not including 8.0, red (low)     *)
(* below 6.0; 8.0 is green and 6.0 is yellow.                              *)
C32_TierByValueAlone ==
    \A a \in VisibleRecords : \A i \in 1..Len(a.KeyMetrics) :
        LET m == a.KeyMetrics[i]
        IN  /\ (m.Color = "text-green-600")  <=> (m.Value >= 8 * MetricScale)
            /\ (m.Color = "text-yellow-600") <=> (6 * MetricScale <= m.Value /\ m.Value < 8 * MetricScale)
            /\ (m.Color = "text-red-600")    <=> (m.Value < 6 * MetricScale)

\* C32 witness: a read has returned a completed record with a metric of
\* exactly 8.0, in green, next to a red one.
C32_Witness ==
    /\ resp.op = "GetAnalysis" /\ resp.code = StatusOK
    /\ resp.data.Status = StatusCompleted
    /\ \E i \in 1..Len(resp.data.KeyMetrics) :
         /\ resp.data.KeyMetrics[i].Value = 8 * MetricScale
         /\ resp.data.KeyMetrics[i].Color = "text-green-600"
    /\ \E i \in 1..Len(resp.data.KeyMetrics) :
         resp.data.KeyMetrics[i].Color = "text-red-600"

-----------------------------------------------------------------------------
\* The candidate sets as sets
InsightCandidates == {InsightSets[n] : n \in 1..Len(InsightSets)}

RiskCandidates == {RiskSets[n] : n \in 1..Len(RiskSets)}

(* C33 as stated: in every record of the registry with status completed    *)
(* the insights are one of the candidate insight sets, whole and in order, *)
(* and the risks are one of the candidate risk sets.                       *)
C33_CompletedRecordHasOneSetOfEach ==
    \A id \in DOMAIN analyses :
        analyses[id].Status = StatusCompleted
          => /\ analyses[id].Insights \in InsightCandidates
             /\ analyses[id].Risks \in RiskCandidates

-----------------------------------------------------------------------------
\* The records the loop iteration of id that is about to run can build, one
\* for each outcome of the random source.
ScoringResults(id) ==
    {StageMutation(MapRead(id), stages[task[id].stage], task[id].clock, d) :
        d \in Draws(MaxScoreRand)}

(* C34 as stated: what the scoring of an analysis produces is determined   *)
(* by what the program is given: from one state of the program, requests   *)
(* and registry the same, a scheduler iteration has one outcome only.      *)
C34_OutputDeterminedBySource ==
    \A id \in DOMAIN task :
        task[id].pc = "sleep"
          => \A a, b \in ScoringResults(id) :
               ( /\ ENABLED (StageLoad(id, MaxScoreRand) /\ task'[id].local = a)
                 /\ ENABLED (StageLoad(id, MaxScoreRand) /\ task'[id].local = b) )
                 => a = b

-----------------------------------------------------------------------------
(* C35 as stated: every record of the registry with status completed has   *)
(* an overall score in [6.25, 10) and a recommendation other than High     *)
(* Risk, and of its metrics only Financial Health can be in the low tier.  *)
C35_CompletedRecordScoreRange ==
    \A id \in DOMAIN analyses :
        analyses[id].Status = StatusCompleted
          => /\ (625 * ScoreScale) \div 100 <= analyses[id].OverallScore
             /\ analyses[id].OverallScore < 10 * ScoreScale
             /\ analyses[id].Recommendation # "High Risk Investment"
             /\ \A i \in 1..Len(analyses[id].KeyMetrics) :
                  analyses[id].KeyMetrics[i].Color = "text-red-600"
                    => analyses[id].KeyMetrics[i].Label = "Financial Health"

-----------------------------------------------------------------------------
(* C36: every entry of the registry is stored under its own id and has a   *)
(* company id that is not empty; the record of an analysis is in the       *)
(* registry when its scheduler exists, no entry is ever removed, and every *)
(* scheduler iteration reads the record of its id, never the zero value,   *)
(* and builds a record with that id and company to write back.             *)
C36_EntryKeyedByOwnID ==
    [][ /\ \A id \in DOMAIN analyses :
             /\ analyses[id].ID = id
             /\ analyses[id].CompanyID # 0
        /\ \A id \in DOMAIN task : Launched(id) => id \in DOMAIN analyses
        /\ DOMAIN analyses \subseteq DOMAIN analyses'
        /\ \A id \in DOMAIN task :
             (task[id].pc = "sleep" /\ task'[id].pc = "write")
               => /\ MapRead(id) # ZeroAnalysis
                  /\ task'[id].local.ID = id
                  /\ task'[id].local.CompanyID = analyses[id].CompanyID ]_vars

\* C36 witness: with two entries in the registry, the scheduler of one has
\* read its record in its first iteration and is about to write it back.
C36_Witness ==
    /\ DOMAIN analyses = AnalysisIds
    /\ \E id \in DOMAIN task :
         /\ task[id].stage = 1
         /\ task[id].pc = "write"
         /\ task[id].local.ID = id
         /\ task[id].local.Progress = 25

-----------------------------------------------------------------------------
(* C37: in every state every record, stored in the registry or being built *)
(* by a goroutine, has created_at <= updated_at, and a completed_at that   *)
(* is set is not earlier than updated_at; a completed record whose store   *)
(* has finished has its completed_at set.                                  *)
C37_TimestampsOrdered ==
    /\ \A a \in {analyses[id] : id \in DOMAIN analyses}
                \cup {task[id].local : id \in DOMAIN task} :
         /\ a.CreatedAt <= a.UpdatedAt
         /\ a.CompletedAt # <<>> => a.UpdatedAt <= a.CompletedAt[1]
    /\ \A id \in DOMAIN analyses :
         (analyses[id].Status = StatusCompleted /\ task[id].pc = "done")
           => /\ analyses[id].CompletedAt # <<>>
              /\ analyses[id].CreatedAt < analyses[id].UpdatedAt

\* C37 witness: in the middle of the completing store the record is
\* completed and has its completed_at, while updated_at is still the time
\* of the third stage, earlier than completed_at.
C37_Witness ==
    \E id \in DOMAIN analyses :
        /\ analyses[id].Status = StatusCompleted
        /\ analyses[id].CompletedAt # <<>>
        /\ analyses[id].CreatedAt < analyses[id].UpdatedAt
        /\ analyses[id].UpdatedAt < analyses[id].CompletedAt[1]

-----------------------------------------------------------------------------
\* The file ids that were registered and have been deleted.
DeletedFiles == issuedFiles \ DOMAIN uploadedFiles

\* The request lists the file id.
Lists(req, fid) == \E i \in 1..Len(req.FileIDs) : req.FileIDs[i] = fid

(* C38: a DeleteUpload that answers success has removed one file from the  *)
(* registered files, a deleted id is never registered again, and every     *)
(* StartAnalysis that lists a deleted id answers an error and creates      *)
(* nothing.  A DeleteUpload that answers an error leaves the registered    *)
(* files as they are; when the error is that the file could not be         *)
(* removed, the file is still registered and a request that lists it       *)
(* passes the checks.                                                      *)
C38_DeletedFileUnusable ==
    [][ /\ (resp'.op = "DeleteUpload" /\ resp'.code = StatusOK)
             => \E fid \in DOMAIN uploadedFiles :
                    uploadedFiles' = [f \in DOMAIN uploadedFiles \ {fid} |-> uploadedFiles[f]]
        /\ (resp'.op = "DeleteUpload" /\ resp'.code # StatusOK)
             => /\ UNCHANGED uploadedFiles
                /\ resp'.code = StatusInternalServerError
                     => \E fid \in DOMAIN uploadedFiles, req \in StartRequests :
                           /\ Lists(req, fid)
                           /\ companies # <<>> => StartAnalysisError(req) = NoResponse
        /\ DeletedFiles \subseteq DeletedFiles'
        /\ \A req \in StartRequests :
             (\E fid \in DeletedFiles : Lists(req, fid))
               => /\ StartAnalysisError(req) # NoResponse
                  /\ StartAnalysis(req)
                       => /\ resp'.code \in {StatusBadRequest, StatusNotFound}
                          /\ UNCHANGED <<task, analyses>> ]_vars

\* C38 witness: the file was deleted and a StartAnalysis for an existing
\* company that lists it has just been refused.
C38_Witness ==
    /\ DeletedFiles # {}
    /\ companies # <<>>
    /\ resp.op = "StartAnalysis"
    /\ resp.code = StatusBadRequest
    /\ \E fid \in DeletedFiles :
         resp.error = "File " \o ToString(fid) \o " not found"

-----------------------------------------------------------------------------
\* The requests UploadFiles gets with a multipart form that holds files
UploadRequests == UNION {[1..n -> SubmittedFiles] : n \in 1..MaxFileList}

\* The files of the request before the first one that is rejected
AcceptedPrefix(files) ==
    {i \in 1..Len(files) : \A j \in 1..i : ~FileRejected(files[j])}

(* C39: an UploadFiles call whose k-th file is the first to be rejected    *)
(* registers exactly the k-1 files before it, with the sizes they have in  *)
(* the request and in its order, keeps every file registered earlier, and  *)
(* answers the error of the k-th file (400 for type or size, 500 for a     *)
(* save error); a call with no rejected file registers all and answers     *)
(* 200.  Every file registered, by a failed call as well, is accepted by   *)
(* StartAnalysis.                                                          *)
C39_PrefixStaysRegistered ==
    [][ \A files \in UploadRequests :
          (resp'.op = "UploadFiles" /\ UploadFiles(TRUE, TRUE, files))
            => LET n == Cardinality(AcceptedPrefix(files))
                   new == DOMAIN uploadedFiles' \ DOMAIN uploadedFiles
               IN  /\ Cardinality(new) = n
                   /\ \A fid \in DOMAIN uploadedFiles :
                        fid \in DOMAIN uploadedFiles' /\ uploadedFiles'[fid] = uploadedFiles[fid]
                   /\ \E ids \in [1..n -> new] :
                        /\ \A i, j \in 1..n : i # j => ids[i] # ids[j]
                        /\ \A i \in 1..n :
                             /\ uploadedFiles'[ids[i]].ID = ids[i]
                             /\ uploadedFiles'[ids[i]].Size = files[i].Size
                             /\ uploadedFiles'[ids[i]].Status = "uploaded"
                   /\ IF n = Len(files)
                      THEN resp'.code = StatusOK
                      ELSE /\ resp'.success = FALSE
                           /\ resp'.code = IF files[n + 1].Ext \in allowedFileTypes
                                              /\ files[n + 1].Size <= MaxUploadBytes
                                           THEN StatusInternalServerError
                                           ELSE StatusBadRequest
                   /\ \A fid \in new, req \in StartRequests :
                        ( /\ req.CompanyID \in DOMAIN companies
                          /\ req.HasFileIDs
                          /\ \A i \in 1..Len(req.FileIDs) : req.FileIDs[i] = fid )
                          => StartAnalysisError(req)' = NoResponse ]_vars

\* C39 witness: an upload has answered that a file could not be saved, one
\* file is registered, and a request of the existing company that lists it
\* passes the checks of StartAnalysis.
C39_Witness ==
    /\ resp.op = "UploadFiles"
    /\ resp.code = StatusInternalServerError
    /\ resp.error = "Failed to save file"
    /\ \E fid \in DOMAIN uploadedFiles, req \in StartRequests :
         /\ req.FileIDs = <<fid>>
         /\ StartAnalysisError(req) = NoResponse

====
